---- MODULE Spec2Model ----
(***************************************************************************)
(* AdvancedMetricsEvaluator (src/advanced_metrics_evaluation.py): the      *)
(* forecast-accuracy metrics of an evaluator built from an actual and a    *)
(* predicted series, and the static FinOps KPI formulas.                   *)
(*                                                                         *)
(* Numbers.  The inputs are integers.  An unrounded float is an exact      *)
(* rational [n, d] (d > 0) or one of the IEEE specials NaN, +Inf, -Inf.    *)
(* A returned value is a record [k, v]: k = "num" with v the value in      *)
(* thousandths (12.34 is 12340, an R2 of 0.667 is 667), or k = "nan",      *)
(* "inf" (v = 1 or -1), "none" (Python None), or the name of the           *)
(* exception the call raises.  round(x, digits) is round-half-to-even on   *)
(* the exact value; within the bounds used here every tie at two or three  *)
(* decimals is a multiple of 1/8, which a binary float holds exactly, so   *)
(* the float and the exact rounding agree.                                 *)
(***************************************************************************)
EXTENDS Integers, Sequences, FiniteSets, TLC

VARIABLES actual, predicted, forecast_lower, forecast_upper, op, args, result,
          summary_csv, first_call

vars == <<actual, predicted, forecast_lower, forecast_upper, op, args, result,
          summary_csv, first_call>>

\* ------------------------------------------------------------------ bounds
\* Longest actual / predicted series of the forecast specification.
MaxLen == 2
\* Entries of actual and predicted range over -1 .. MaxVal.
MaxVal == 2

Vals == (0 - 1)..MaxVal

\* Longest naive_forecast argument of calculate_mase; its entries are 0 or 2.
MaxNaive == 1

RECURSIVE SeqsOfLen(_, _)
SeqsOfLen(S, n) ==
    IF n = 0 THEN {<<>>}
    ELSE {Append(s, x) : s \in SeqsOfLen(S, n - 1), x \in S}

SeqsUpTo(S, n) == UNION {SeqsOfLen(S, k) : k \in 0..n}

\* Scalar KPI arguments range over -1 .. MaxKpi, the two amounts of the
\* budget example (100 and 110) and two large amounts that differ by one.
MaxKpi == 8

KpiVals == ((0 - 1)..MaxKpi) \cup {100, 110, 21000, 21001}

\* Longest series of the interval specification; its entries and the
\* interval bounds range over 0 .. MaxIv.
MaxIvLen == 2
MaxIv == 1

IvVals == 0..MaxIv

\* The naive_forecast arguments tried.
NaiveForecasts == SeqsUpTo({0, 2}, MaxNaive)

\* The equal-length specifications: series of up to MaxSeriesLen entries
\* over SeriesVals, and (for calculate_bias) series of LongLen entries.
MaxSeriesLen == 3
LongLen == 201

SeriesVals == {0 - 1, 0, 1, 2}
LongFlat == [i \in 1..LongLen |-> 1]
LongStep == [i \in 1..LongLen |-> IF i = 1 THEN 2 ELSE 1]

\* The equal-length specification of every forecast metric: series of up to
\* MaxEqualLen entries over EqualVals.
MaxEqualLen == 3

EqualVals == {0 - 1, 0, 2}

\* calculate_picp on a long series: LongIvLen actual values of 0 inside
\* [0, 0], except the first, whose interval is [0, -1].
LongIvLen == 20001

LongIvFlat == [i \in 1..LongIvLen |-> 0]
LongIvStep == [i \in 1..LongIvLen |-> IF i = 1 THEN 0 - 1 ELSE 0]

\* generate_comprehensive_metrics_report: a cost table of up to MaxRows
\* daily rows whose cost_inr is 0 or 7, so that every 7-day moving average
\* is a whole number (each product 7 * (1/7) is exactly 1.0 in floats).
MaxRows == 10

ReportVals == {0, 7}

\* calculate_cagr: the costs range over KpiVals and 121 (the growth example
\* 100 -> 121), num_years over -1 .. MaxYears.
MaxYears == 2

CagrVals == KpiVals \cup {121}
YearVals == (0 - 1)..MaxYears

\* calculate_coefficient_of_variation: costs of up to MaxCosts entries over
\* -1 .. MaxCost and 50 (the constant example [50, 50, 50]).
MaxCosts == 3
MaxCost == 2

CostVals == ((0 - 1)..MaxCost) \cup {50}

\* ------------------------------------------------------ returned values
Num(m) == [k |-> "num", v |-> m]
NaN == [k |-> "nan", v |-> 0]
Inf(sign) == [k |-> "inf", v |-> sign]
None == [k |-> "none", v |-> 0]
Raise(exc) == [k |-> exc, v |-> 0]

IsRaise(r) == r.k \in {"IndexError", "ValueError", "TypeError"}
IsNum(r) == r.k = "num"

\* ------------------------------------------------------ unrounded floats
Fin(n, d) == [k |-> "fin", n |-> n, d |-> d]
FNaN == [k |-> "nan", n |-> 0, d |-> 1]
FInf(sign) == [k |-> "inf", n |-> sign, d |-> 1]

Abs(x) == IF x < 0 THEN 0 - x ELSE x
Sign(x) == IF x < 0 THEN 0 - 1 ELSE IF x > 0 THEN 1 ELSE 0

RECURSIVE Gcd(_, _)
Gcd(a, b) == IF b = 0 THEN a ELSE Gcd(b, a % b)

\* The rational n/d in lowest terms, d > 0.
Norm(n, d) ==
    LET g == Gcd(Abs(n), d)
    IN  IF g = 0 THEN Fin(n, d) ELSE Fin(n \div g, d \div g)

\* x + y for finite x, y.
FAdd(x, y) == Norm(x.n * y.d + y.n * x.d, x.d * y.d)

\* numpy's true division x / y: dividing by zero gives nan or +-inf with a
\* (suppressed) RuntimeWarning, it does not raise.
FDiv(x, y) ==
    IF x.k = "nan" \/ y.k = "nan" THEN FNaN
    ELSE IF x.k = "inf" THEN (IF y.k = "inf" THEN FNaN
                              ELSE FInf(x.n * (IF y.n < 0 THEN 0 - 1 ELSE 1)))
    ELSE IF y.k = "inf" THEN Fin(0, 1)
    ELSE IF y.n = 0 THEN (IF x.n = 0 THEN FNaN ELSE FInf(Sign(x.n)))
    ELSE Norm(x.n * y.d * Sign(y.n), x.d * Abs(y.n))

\* x * c for an integer c > 0.
FScale(x, c) == IF x.k = "fin" THEN Norm(x.n * c, x.d) ELSE x

\* 10^digits.
Pow10(digits) == IF digits = 3 THEN 1000 ELSE IF digits = 2 THEN 100 ELSE 10

\* n/d rounded half-to-even to a multiple of 1/s, as a count of 1/s.
RoundHalfEven(n, d, s) ==
    LET t == (2 * n * s + d) \div (2 * d)
        tie == (2 * n * s + d) % (2 * d) = 0
    IN  IF tie /\ t % 2 # 0 THEN t - 1 ELSE t

\* round(x, digits): nan and inf come back unchanged.
Round(x, digits) ==
    IF x.k = "nan" THEN NaN
    ELSE IF x.k = "inf" THEN Inf(x.n)
    ELSE Num(RoundHalfEven(x.n, x.d, Pow10(digits)) * (1000 \div Pow10(digits)))

\* --------------------------------------------------------- array helpers
\* np.sum of an integer array, summed by halves as numpy's pairwise
\* summation does (the sum of integers is exact either way).
RECURSIVE SumSeq(_)
SumSeq(s) ==
    IF Len(s) = 0 THEN 0
    ELSE IF Len(s) = 1 THEN s[1]
    ELSE LET h == Len(s) \div 2
         IN  SumSeq(SubSeq(s, 1, h)) + SumSeq(SubSeq(s, h + 1, Len(s)))

RECURSIVE FSumSeq(_)
FSumSeq(s) == IF s = <<>> THEN Fin(0, 1) ELSE FAdd(s[1], FSumSeq(Tail(s)))

\* np.mean of an integer array: nan for an empty one.
MeanInt(s) == FDiv(Fin(SumSeq(s), 1), Fin(Len(s), 1))

\* np.mean of a float array: nan for an empty one.
MeanF(s) == FDiv(FSumSeq(s), Fin(Len(s), 1))

\* a[mask]: the entries of s at the indices where keep holds, in order.
RECURSIVE Masked(_, _)
Masked(s, keep) ==
    IF s = <<>> THEN <<>>
    ELSE IF keep[1] THEN <<s[1]>> \o Masked(Tail(s), Tail(keep))
    ELSE Masked(Tail(s), Tail(keep))

\* The common length of a and b under numpy broadcasting of two 1-d arrays,
\* or -1 when the shapes cannot be broadcast (ValueError).
BroadcastLen(m, n) ==
    IF m = n THEN m
    ELSE IF m = 1 THEN n
    ELSE IF n = 1 THEN m
    ELSE 0 - 1

\* s stretched to length L (s has length L or 1).
Stretch(s, L) == [i \in 1..L |-> IF Len(s) = L THEN s[i] ELSE s[1]]

\* Elementwise |a - p| after broadcasting both to length L.
AbsErr(a, p, L) ==
    LET x == Stretch(a, L)
        y == Stretch(p, L)
    IN  [i \in 1..L |-> Abs(x[i] - y[i])]

\* x < y for finite rationals.
FLess(x, y) == x.n * y.d < y.n * x.d

\* s with x inserted before the first entry greater than x (s sorted).
RECURSIVE Insert(_, _)
Insert(s, x) ==
    IF s = <<>> THEN <<x>>
    ELSE IF FLess(x, s[1]) THEN <<x>> \o s
    ELSE <<s[1]>> \o Insert(Tail(s), x)

RECURSIVE Sorted(_)
Sorted(s) == IF s = <<>> THEN <<>> ELSE Insert(Sorted(Tail(s)), s[1])

\* np.median: nan for an empty array, the middle entry of the sorted array
\* for an odd count, the mean of the two middle entries for an even one.
Median(s) ==
    LET n == Len(s)
        t == Sorted(s)
    IN  IF n = 0 THEN FNaN
        ELSE IF n % 2 = 1 THEN t[(n + 1) \div 2]
        ELSE FDiv(FAdd(t[n \div 2], t[n \div 2 + 1]), Fin(2, 1))

\* The largest r >= 0 with r * r <= x, searched in lo..hi.
RECURSIVE IsqrtIn(_, _, _)
IsqrtIn(x, lo, hi) ==
    IF lo >= hi THEN lo
    ELSE LET mid == (lo + hi + 1) \div 2
         IN  IF mid * mid <= x THEN IsqrtIn(x, mid, hi) ELSE IsqrtIn(x, lo, mid - 1)

Isqrt(x) == IsqrtIn(x, 0, 40000)

\* round(sqrt(n/d), 2) in thousandths: round(100 * sqrt(q)) is
\* floor((floor(sqrt(40000 * q)) + 1) / 2).
RoundSqrt2(n, d) == ((Isqrt((40000 * n) \div d) + 1) \div 2) * 10

\* Naturals beyond the machine word, for the exact comparison of powers:
\* base-1000 limbs, least significant first, no leading zero limb (0 is <<>>).
RECURSIVE BigOfInt(_)
BigOfInt(n) == IF n = 0 THEN <<>> ELSE <<n % 1000>> \o BigOfInt(n \div 1000)

RECURSIVE BigAdd(_, _, _)
BigAdd(x, y, carry) ==
    IF x = <<>> /\ y = <<>> THEN BigOfInt(carry)
    ELSE LET a == IF x = <<>> THEN 0 ELSE x[1]
             b == IF y = <<>> THEN 0 ELSE y[1]
             t == a + b + carry
         IN  <<t % 1000>> \o BigAdd(IF x = <<>> THEN <<>> ELSE Tail(x),
                                    IF y = <<>> THEN <<>> ELSE Tail(y),
                                    t \div 1000)

\* x * c + carry for one limb c.
RECURSIVE BigMulLimb(_, _, _)
BigMulLimb(x, c, carry) ==
    IF x = <<>> THEN BigOfInt(carry)
    ELSE LET t == x[1] * c + carry
         IN  <<t % 1000>> \o BigMulLimb(Tail(x), c, t \div 1000)

RECURSIVE BigMul(_, _)
BigMul(x, y) ==
    IF x = <<>> \/ y = <<>> THEN <<>>
    ELSE LET low == IF y[1] = 0 THEN <<>> ELSE BigMulLimb(x, y[1], 0)
             high == BigMul(x, Tail(y))
         IN  BigAdd(low, IF high = <<>> THEN <<>> ELSE <<0>> \o high, 0)

RECURSIVE BigPow(_, _)
BigPow(x, e) == IF e = 0 THEN <<1>> ELSE BigMul(x, BigPow(x, e - 1))

RECURSIVE BigLeq(_, _)
BigLeq(x, y) ==
    LET n == Len(x)
    IN  IF n # Len(y) THEN n < Len(y)
        ELSE IF n = 0 THEN TRUE
        ELSE IF x[n] # y[n] THEN x[n] < y[n]
        ELSE BigLeq(SubSeq(x, 1, n - 1), SubSeq(y, 1, n - 1))

\* m^y * i as a large natural.
PowTimes(m, y, i) == BigMul(BigPow(BigOfInt(m), y), BigOfInt(i))

\* The largest m in lo..hi with m^y * i <= target.
RECURSIVE RootFloorIn(_, _, _, _, _)
RootFloorIn(target, i, y, lo, hi) ==
    IF lo >= hi THEN lo
    ELSE LET mid == (lo + hi + 1) \div 2
         IN  IF BigLeq(PowTimes(mid, y, i), target)
             THEN RootFloorIn(target, i, y, mid, hi)
             ELSE RootFloorIn(target, i, y, lo, mid - 1)

\* (f/i) ** (1/y) for f >= 0, i > 0 and an integer y >= 1, times 10000 and
\* rounded half-to-even.  With u = 20000 * root and m = floor(u) the rounding
\* of u/2 is m/2 for an even m and (m + 1)/2 for an odd one, except at the
\* exact tie u = m, which goes to the even neighbour.
RoundRoot(f, i, y) ==
    LET target == PowTimes(20000, y, f)
        hi == 20000 * (f \div i + 1)
        m == RootFloorIn(target, i, y, 0, hi)
        tie == PowTimes(m, y, i) = target
        k == m \div 2
    IN  IF m % 2 = 0 THEN k
        ELSE IF tie /\ k % 2 = 0 THEN k
        ELSE k + 1

\* sklearn's check_consistent_length and check_array on (y_true, y_pred):
\* a ValueError for different lengths and for no sample at all.
SklearnRejects(a, p) == Len(a) # Len(p) \/ Len(a) = 0

\* predicted[mask] with mask = actual != 0: numpy raises IndexError when the
\* boolean mask and the indexed array differ in length, except for a mask of
\* length 0, which it does not check and which selects nothing.
MaskRejects(a, p) == Len(a) # Len(p) /\ Len(a) > 0

\* ------------------------------------------- forecast accuracy metrics
\* Mutant: the mean is taken over every index, zero actual values counted.
calculate_mape_all(a, p) ==
    IF MaskRejects(a, p) THEN Raise("IndexError")
    ELSE LET mask == [i \in 1..Len(a) |-> a[i] # 0]
             ape == [i \in 1..Len(a) |-> Norm(Abs(a[i] - p[i]), Abs(a[i]))]
         IN  Round(FScale(FDiv(FSumSeq(Masked(ape, mask)), Fin(Len(a), 1)), 100), 2)

calculate_mape(a, p) ==
    IF MaskRejects(a, p) THEN Raise("IndexError")
    ELSE LET mask == [i \in 1..Len(a) |-> a[i] # 0]
             ape == [i \in 1..Len(a) |-> Norm(Abs(a[i] - p[i]), Abs(a[i]))]
         IN  Round(FScale(MeanF(Masked(ape, mask)), 100), 2)

\* Mutant: the mask keeps the indices with actual != 0.
calculate_smape_actual_mask(a, p) ==
    LET L == BroadcastLen(Len(a), Len(p))
    IN  IF L < 0 THEN Raise("ValueError")
        ELSE LET x == Stretch(a, L)
                 y == Stretch(p, L)
                 numerator == AbsErr(a, p, L)
                 denom2 == [i \in 1..L |-> Abs(x[i]) + Abs(y[i])]
                 mask == [i \in 1..L |-> x[i] # 0]
                 ratio == [i \in 1..L |-> Norm(2 * numerator[i], denom2[i])]
             IN  Round(FScale(MeanF(Masked(ratio, mask)), 100), 2)

calculate_smape(a, p) ==
    LET L == BroadcastLen(Len(a), Len(p))
    IN  IF L < 0 THEN Raise("ValueError")
        ELSE LET x == Stretch(a, L)
                 y == Stretch(p, L)
                 numerator == AbsErr(a, p, L)
                 \* twice the denominator (|a| + |p|) / 2
                 denom2 == [i \in 1..L |-> Abs(x[i]) + Abs(y[i])]
                 mask == [i \in 1..L |-> denom2[i] # 0]
                 ratio == [i \in 1..L |-> Norm(2 * numerator[i], denom2[i])]
             IN  Round(FScale(MeanF(Masked(ratio, mask)), 100), 2)

calculate_wape(a, p) ==
    LET L == BroadcastLen(Len(a), Len(p))
    IN  IF L < 0 THEN Raise("ValueError")
        ELSE LET num == SumSeq(AbsErr(a, p, L))
                 den == SumSeq([i \in 1..Len(a) |-> Abs(a[i])])
             IN  Round(FScale(FDiv(Fin(num, 1), Fin(den, 1)), 100), 2)

calculate_mae(a, p) ==
    IF SklearnRejects(a, p) THEN Raise("ValueError")
    ELSE Round(MeanInt(AbsErr(a, p, Len(a))), 2)

\* Mutant: the root of the squared mean error, |mean(actual - predicted)|.
calculate_rmse_of_mean(a, p) ==
    IF SklearnRejects(a, p) THEN Raise("ValueError")
    ELSE LET signed == SumSeq([i \in 1..Len(a) |-> a[i] - p[i]])
         IN  Round(Norm(Abs(signed), Len(a)), 2)

calculate_rmse(a, p) ==
    IF SklearnRejects(a, p) THEN Raise("ValueError")
    ELSE LET e == AbsErr(a, p, Len(a))
             ss == SumSeq([i \in 1..Len(a) |-> e[i] * e[i]])
         IN  Num(RoundSqrt2(ss, Len(a)))

\* Mutant: for an even count the upper middle value is taken.
calculate_mdape_upper(a, p) ==
    IF MaskRejects(a, p) THEN Raise("IndexError")
    ELSE LET mask == [i \in 1..Len(a) |-> a[i] # 0]
             ape == [i \in 1..Len(a) |-> Norm(100 * Abs(a[i] - p[i]), Abs(a[i]))]
             t == Sorted(Masked(ape, mask))
         IN  IF Len(t) = 0 THEN NaN ELSE Round(t[Len(t) \div 2 + 1], 2)

calculate_mdape(a, p) ==
    IF MaskRejects(a, p) THEN Raise("IndexError")
    ELSE LET mask == [i \in 1..Len(a) |-> a[i] # 0]
             ape == [i \in 1..Len(a) |-> Norm(100 * Abs(a[i] - p[i]), Abs(a[i]))]
         IN  Round(Median(Masked(ape, mask)), 2)

\* Mutant: SS_tot is taken about 0 instead of about mean(actual).
calculate_r2_uncentered(a, p) ==
    IF SklearnRejects(a, p) THEN Raise("ValueError")
    ELSE IF Len(a) < 2 THEN NaN
    ELSE LET n == Len(a)
             e == AbsErr(a, p, n)
             ss_res == SumSeq([i \in 1..n |-> e[i] * e[i]])
             ss_tot == SumSeq([i \in 1..n |-> a[i] * a[i]])
         IN  IF ss_tot = 0 THEN (IF ss_res = 0 THEN Num(1000) ELSE Num(0))
             ELSE Round(Norm(ss_tot - ss_res, ss_tot), 3)

\* sklearn.metrics.r2_score: nan for fewer than two samples; with a constant
\* actual (SS_tot = 0) it is 1.0 for a perfect prediction and 0.0 otherwise.
calculate_r2(a, p) ==
    IF SklearnRejects(a, p) THEN Raise("ValueError")
    ELSE IF Len(a) < 2 THEN NaN
    ELSE LET n == Len(a)
             e == AbsErr(a, p, n)
             ss_res == SumSeq([i \in 1..n |-> e[i] * e[i]])
             \* n * SS_tot = n * sum(a^2) - sum(a)^2
             n_ss_tot == n * SumSeq([i \in 1..n |-> a[i] * a[i]])
                           - SumSeq(a) * SumSeq(a)
         IN  IF n_ss_tot = 0 THEN (IF ss_res = 0 THEN Num(1000) ELSE Num(0))
             ELSE Round(Norm(n_ss_tot - n * ss_res, n_ss_tot), 3)

\* np.mean(predicted - actual) under broadcasting; callers check L >= 0.
MeanErr(a, p, L) ==
    LET x == Stretch(a, L)
        y == Stretch(p, L)
    IN  MeanInt([i \in 1..L |-> y[i] - x[i]])

\* Mutant: the error is taken as actual - predicted.
calculate_bias_reversed(a, p) ==
    LET L == BroadcastLen(Len(a), Len(p))
    IN  IF L < 0 THEN Raise("ValueError")
        ELSE Round(MeanErr(p, a, L), 2)

calculate_bias(a, p) ==
    LET L == BroadcastLen(Len(a), Len(p))
    IN  IF L < 0 THEN Raise("ValueError")
        ELSE Round(MeanErr(a, p, L), 2)

\* Mutant: the division by mean(actual) is not guarded.
calculate_bias_percentage_unguarded(a, p) ==
    LET L == BroadcastLen(Len(a), Len(p))
    IN  IF L < 0 THEN Raise("ValueError")
        ELSE Round(FScale(FDiv(MeanErr(a, p, L), MeanInt(a)), 100), 2)

calculate_bias_percentage(a, p) ==
    LET L == BroadcastLen(Len(a), Len(p))
        mean_actual == MeanInt(a)
    IN  IF L < 0 THEN Raise("ValueError")
        ELSE IF mean_actual.k = "fin" /\ mean_actual.n = 0 THEN Num(0)
        ELSE Round(FScale(FDiv(MeanErr(a, p, L), mean_actual), 100), 2)

\* An optional array argument: absent (None) or an array.
Absent == [given |-> FALSE, val |-> <<>>]
Given(s) == [given |-> TRUE, val |-> s]

\* Mutant: the upper end of the interval is exclusive.
calculate_picp_exclusive(a, lower, upper) ==
    IF ~lower.given \/ ~upper.given THEN None
    ELSE LET n == Len(a)
             inside_interval ==
                 Cardinality({i \in 1..n : a[i] >= lower.val[i] /\ a[i] < upper.val[i]})
         IN  Round(FScale(FDiv(Fin(inside_interval, 1), Fin(n, 1)), 100), 2)

\* Mutant: an index counts when either end of the interval holds.
calculate_picp_either(a, lower, upper) ==
    IF ~lower.given \/ ~upper.given THEN None
    ELSE LET n == Len(a)
             inside_interval ==
                 Cardinality({i \in 1..n : a[i] >= lower.val[i] \/ a[i] <= upper.val[i]})
         IN  Round(FScale(FDiv(Fin(inside_interval, 1), Fin(n, 1)), 100), 2)

calculate_picp(a, lower, upper) ==
    IF ~lower.given \/ ~upper.given THEN None
    ELSE LET L1 == BroadcastLen(Len(a), Len(lower.val))
             L2 == BroadcastLen(Len(a), Len(upper.val))
             L == IF L1 < 0 \/ L2 < 0 THEN 0 - 1 ELSE BroadcastLen(L1, L2)
         IN  IF L < 0 THEN Raise("ValueError")
             ELSE LET x == Stretch(a, L1)
                      lo == Stretch(lower.val, L1)
                      y == Stretch(a, L2)
                      up == Stretch(upper.val, L2)
                      ge == Stretch([i \in 1..L1 |-> x[i] >= lo[i]], L)
                      le == Stretch([i \in 1..L2 |-> y[i] <= up[i]], L)
                      inside_interval == Cardinality({i \in 1..L : ge[i] /\ le[i]})
                  IN  Round(FScale(FDiv(Fin(inside_interval, 1), Fin(Len(a), 1)), 100), 2)

\* Mutant: the division by the naive MAE is not guarded.
calculate_mase_unguarded(a, p, naive_forecast) ==
    LET L == BroadcastLen(Len(a), Len(p))
    IN  IF L < 0 THEN Raise("ValueError")
        ELSE LET mae_model == MeanInt(AbsErr(a, p, L))
                 mae_naive ==
                     MeanInt([i \in 1..Len(naive_forecast) |-> Abs(naive_forecast[i])])
             IN  Round(FDiv(mae_model, mae_naive), 3)

calculate_mase(a, p, naive_forecast) ==
    LET L == BroadcastLen(Len(a), Len(p))
    IN  IF L < 0 THEN Raise("ValueError")
        ELSE LET mae_model == MeanInt(AbsErr(a, p, L))
                 mae_naive ==
                     MeanInt([i \in 1..Len(naive_forecast) |-> Abs(naive_forecast[i])])
             IN  IF mae_naive.k = "fin" /\ mae_naive.n = 0 THEN Inf(1)
                 ELSE Round(FDiv(mae_model, mae_naive), 3)

\* The dictionary is built entry by entry: the first call that raises ends
\* get_all_forecast_metrics with that exception.
MetricCalls(a, p, lower, upper) ==
    << <<"MAPE (%)", calculate_mape(a, p)>>,
       <<"sMAPE (%)", calculate_smape(a, p)>>,
       <<"WAPE (%)", calculate_wape(a, p)>>,
       <<"MAE (INR)", calculate_mae(a, p)>>,
       <<"RMSE (INR)", calculate_rmse(a, p)>>,
       <<"MdAPE (%)", calculate_mdape(a, p)>>,
       <<"R2 Score", calculate_r2(a, p)>>,
       <<"Bias (INR)", calculate_bias(a, p)>>,
       <<"Bias (%)", calculate_bias_percentage(a, p)>>,
       <<"PICP (%)", calculate_picp(a, lower, upper)>> >>

get_all_forecast_metrics(a, p, lower, upper) ==
    LET calls == MetricCalls(a, p, lower, upper)
        raising == {i \in DOMAIN calls : IsRaise(calls[i][2])}
    IN  IF raising # {}
        THEN calls[CHOOSE i \in raising : \A j \in raising : i <= j][2]
        ELSE [k |-> "dict", v |-> [i \in DOMAIN calls |-> calls[i][2]]]

\* History variable first_call: the first call made after construction, with
\* its arguments and the value it returned.  It is kept by the specification
\* that compares a repeated call with the first one (None until a call is
\* made) and is switched off (Untracked) in the others.
Untracked == [k |-> "off", v |-> 0]

RecordCall ==
    first_call' = IF first_call.k = "none"
                  THEN [k |-> "call", op |-> op', args |-> args',
                        result |-> result']
                  ELSE first_call

\* ------------------------------------------------------------- evaluator
\* __init__ stores the arrays as given: it checks neither lengths nor types.
Init ==
    /\ actual \in SeqsUpTo(Vals, MaxLen)
    /\ predicted \in SeqsUpTo(Vals, MaxLen)
    /\ forecast_lower = Absent
    /\ forecast_upper = Absent
    /\ op = "__init__"
    /\ args = <<>>
    /\ result = None
    /\ summary_csv = None
    /\ first_call = Untracked

\* The evaluator's arrays: no metric assigns them.
evaluator == <<actual, predicted, forecast_lower, forecast_upper>>

CalculateMape ==
    /\ op' = "calculate_mape"
    /\ args' = <<>>
    /\ result' = calculate_mape(actual, predicted)
    /\ UNCHANGED <<evaluator, summary_csv>>
    /\ RecordCall

CalculateSmape ==
    /\ op' = "calculate_smape"
    /\ args' = <<>>
    /\ result' = calculate_smape(actual, predicted)
    /\ UNCHANGED <<evaluator, summary_csv>>
    /\ RecordCall

CalculateWape ==
    /\ op' = "calculate_wape"
    /\ args' = <<>>
    /\ result' = calculate_wape(actual, predicted)
    /\ UNCHANGED <<evaluator, summary_csv>>
    /\ RecordCall

CalculateMae ==
    /\ op' = "calculate_mae"
    /\ args' = <<>>
    /\ result' = calculate_mae(actual, predicted)
    /\ UNCHANGED <<evaluator, summary_csv>>
    /\ RecordCall

CalculateRmse ==
    /\ op' = "calculate_rmse"
    /\ args' = <<>>
    /\ result' = calculate_rmse(actual, predicted)
    /\ UNCHANGED <<evaluator, summary_csv>>
    /\ RecordCall

CalculateMdape ==
    /\ op' = "calculate_mdape"
    /\ args' = <<>>
    /\ result' = calculate_mdape(actual, predicted)
    /\ UNCHANGED <<evaluator, summary_csv>>
    /\ RecordCall

CalculateR2 ==
    /\ op' = "calculate_r2"
    /\ args' = <<>>
    /\ result' = calculate_r2(actual, predicted)
    /\ UNCHANGED <<evaluator, summary_csv>>
    /\ RecordCall

\* Mutant: the error is computed in place, predicted -= actual.
CalculateBiasInPlace ==
    /\ op' = "calculate_bias"
    /\ args' = <<>>
    /\ result' = calculate_bias(actual, predicted)
    /\ predicted' = [i \in DOMAIN predicted |->
                        predicted[i] - (IF i \in DOMAIN actual THEN actual[i] ELSE 0)]
    /\ UNCHANGED <<actual, forecast_lower, forecast_upper, summary_csv>>
    /\ RecordCall

CalculateBias ==
    /\ op' = "calculate_bias"
    /\ args' = <<>>
    /\ result' = calculate_bias(actual, predicted)
    /\ UNCHANGED <<evaluator, summary_csv>>
    /\ RecordCall

CalculateBiasPercentage ==
    /\ op' = "calculate_bias_percentage"
    /\ args' = <<>>
    /\ result' = calculate_bias_percentage(actual, predicted)
    /\ UNCHANGED <<evaluator, summary_csv>>
    /\ RecordCall

CalculatePicp ==
    /\ op' = "calculate_picp"
    /\ args' = <<>>
    /\ result' = calculate_picp(actual, forecast_lower, forecast_upper)
    /\ UNCHANGED <<evaluator, summary_csv>>
    /\ RecordCall

CalculateMase ==
    \E naive_forecast \in NaiveForecasts :
        /\ op' = "calculate_mase"
        /\ args' = <<naive_forecast>>
        /\ result' = calculate_mase(actual, predicted, naive_forecast)
        /\ UNCHANGED <<evaluator, summary_csv>>
        /\ RecordCall

GetAllForecastMetrics ==
    /\ op' = "get_all_forecast_metrics"
    /\ args' = <<>>
    /\ result' = get_all_forecast_metrics(actual, predicted,
                                           forecast_lower, forecast_upper)
    /\ UNCHANGED <<evaluator, summary_csv>>
    /\ RecordCall

Next ==
    \/ CalculateMape
    \/ CalculateSmape
    \/ CalculateWape
    \/ CalculateMae
    \/ CalculateRmse
    \/ CalculateMdape
    \/ CalculateR2
    \/ CalculateBias
    \/ CalculateBiasPercentage
    \/ CalculatePicp
    \/ CalculateMase
    \/ GetAllForecastMetrics

Spec == Init /\ [][Next]_vars

\* ------------------------------------------------ equal-length series
\* An evaluator built from two series of the same length, of up to
\* MaxSeriesLen entries over SeriesVals.
InitSeries ==
    /\ \E n \in 0..MaxSeriesLen :
           /\ actual \in SeqsOfLen(SeriesVals, n)
           /\ predicted \in SeqsOfLen(SeriesVals, n)
    /\ forecast_lower = Absent
    /\ forecast_upper = Absent
    /\ op = "__init__"
    /\ args = <<>>
    /\ result = None
    /\ summary_csv = None
    /\ first_call = Untracked

NextSeries ==
    \/ CalculateMape
    \/ CalculateSmape
    \/ CalculateWape
    \/ CalculateMdape

SpecSeries == InitSeries /\ [][NextSeries]_vars

\* Every forecast metric on an evaluator built from two series of the same
\* length, of up to MaxEqualLen entries over EqualVals and with no interval.
InitEqual ==
    /\ \E n \in 0..MaxEqualLen :
           /\ actual \in SeqsOfLen(EqualVals, n)
           /\ predicted \in SeqsOfLen(EqualVals, n)
    /\ forecast_lower = Absent
    /\ forecast_upper = Absent
    /\ op = "__init__"
    /\ args = <<>>
    /\ result = None
    /\ summary_csv = None
    /\ first_call = Untracked

SpecEqual == InitEqual /\ [][Next]_vars

\* The same evaluators and two built from long series of LongLen entries
\* that differ by 1 in one entry (a mean error below 0.005), for
\* calculate_bias and calculate_bias_percentage.
InitBias ==
    /\ \/ \E n \in 0..MaxSeriesLen :
              /\ actual \in SeqsOfLen(SeriesVals, n)
              /\ predicted \in SeqsOfLen(SeriesVals, n)
       \/ actual = LongFlat /\ predicted = LongStep
       \/ actual = LongStep /\ predicted = LongFlat
    /\ forecast_lower = Absent
    /\ forecast_upper = Absent
    /\ op = "__init__"
    /\ args = <<>>
    /\ result = None
    /\ summary_csv = None
    /\ first_call = Untracked

NextBias ==
    \/ CalculateBias
    \/ CalculateBiasPercentage

SpecBias == InitBias /\ [][NextBias]_vars

\* ---------------------------------------------------------- FinOps KPIs
\* The static methods take Python numbers: the guard is the conditional
\* expression's, so the division never sees a denominator <= 0.
\* Mutant: the ratio is not scaled to a percentage.
calculate_waste_rate_unscaled(total_cost, idle_cost) ==
    IF total_cost > 0 THEN Round(Norm(idle_cost, total_cost), 2)
    ELSE Num(0)

calculate_waste_rate(total_cost, idle_cost) ==
    IF total_cost > 0 THEN Round(FScale(Norm(idle_cost, total_cost), 100), 2)
    ELSE Num(0)

calculate_unit_cost(total_cost, total_units) ==
    IF total_units > 0 THEN Round(Norm(total_cost, total_units), 2)
    ELSE Num(0)

\* Mutant: the variance is taken as budgeted - actual.
calculate_budget_variance_flipped(actual_cost, budgeted_cost) ==
    LET variance == budgeted_cost - actual_cost
        variance_pct == IF budgeted_cost > 0
                        THEN Round(FScale(Norm(variance, budgeted_cost), 100), 2)
                        ELSE Num(0)
    IN  [k |-> "dict",
         v |-> [variance_inr |-> Round(Fin(variance, 1), 2),
                variance_pct |-> variance_pct]]

\* Mutant: the guard tests budgeted_cost != 0 instead of > 0.
calculate_budget_variance_nonzero(actual_cost, budgeted_cost) ==
    LET variance == actual_cost - budgeted_cost
        variance_pct ==
            IF budgeted_cost # 0
            THEN Round(FScale(FDiv(Fin(variance, 1), Fin(budgeted_cost, 1)), 100), 2)
            ELSE Num(0)
    IN  [k |-> "dict",
         v |-> [variance_inr |-> Round(Fin(variance, 1), 2),
                variance_pct |-> variance_pct]]

calculate_budget_variance(actual_cost, budgeted_cost) ==
    LET variance == actual_cost - budgeted_cost
        variance_pct == IF budgeted_cost > 0
                        THEN Round(FScale(Norm(variance, budgeted_cost), 100), 2)
                        ELSE Num(0)
    IN  [k |-> "dict",
         v |-> [variance_inr |-> Round(Fin(variance, 1), 2),
                variance_pct |-> variance_pct]]

calculate_ri_sp_coverage(total_hours, covered_hours) ==
    IF total_hours > 0 THEN Round(FScale(Norm(covered_hours, total_hours), 100), 2)
    ELSE Num(0)

\* Mutant: the guard tests purchased_hours != 0 instead of > 0.
calculate_ri_sp_utilization_nonzero(purchased_hours, used_hours) ==
    IF purchased_hours # 0
    THEN Round(FScale(FDiv(Fin(used_hours, 1), Fin(purchased_hours, 1)), 100), 2)
    ELSE Num(0)

calculate_ri_sp_utilization(purchased_hours, used_hours) ==
    IF purchased_hours > 0
    THEN Round(FScale(Norm(used_hours, purchased_hours), 100), 2)
    ELSE Num(0)

calculate_tag_compliance(total_resources, tagged_resources) ==
    IF total_resources > 0
    THEN Round(FScale(Norm(tagged_resources, total_resources), 100), 2)
    ELSE Num(0)

\* The growth of calculate_cagr past its guard (initial_cost > 0,
\* num_years > 0): 1 / 1 is 1.0 and x ** 1.0 is x; a negative ratio to a
\* fractional power is a complex number, which round() rejects (TypeError).
CagrGrowth(initial_cost, final_cost, num_years) ==
    IF num_years = 1
    THEN Round(FScale(Norm(final_cost - initial_cost, initial_cost), 100), 2)
    ELSE IF final_cost < 0 THEN Raise("TypeError")
    ELSE Num((RoundRoot(final_cost, initial_cost, num_years) - 10000) * 10)

\* Mutant: the guard is strict (< 0), so a zero initial_cost or num_years
\* reaches the division.
calculate_cagr_strict_guard(initial_cost, final_cost, num_years) ==
    IF initial_cost < 0 \/ num_years < 0 THEN Num(0)
    ELSE IF initial_cost = 0 \/ num_years = 0 THEN Raise("ZeroDivisionError")
    ELSE CagrGrowth(initial_cost, final_cost, num_years)

calculate_cagr(initial_cost, final_cost, num_years) ==
    IF initial_cost <= 0 \/ num_years <= 0 THEN Num(0)
    ELSE CagrGrowth(initial_cost, final_cost, num_years)

\* n^2 times the population variance of costs: n * sum(x^2) - sum(x)^2.
VarTimesN2(costs) ==
    Len(costs) * SumSeq([i \in 1..Len(costs) |-> costs[i] * costs[i]])
        - SumSeq(costs) * SumSeq(costs)

\* Mutant: the root mean square of costs stands in for np.std.
calculate_coefficient_of_variation_rms(costs) ==
    LET mean_cost == MeanInt(costs)
    IN  IF mean_cost.k = "fin" /\ mean_cost.n > 0
        THEN Num(RoundRoot(VarTimesN2(costs) + SumSeq(costs) * SumSeq(costs),
                           SumSeq(costs) * SumSeq(costs), 2) * 10)
        ELSE Num(0)

\* Mutant: the guard tests mean_cost != 0 instead of > 0.
calculate_coefficient_of_variation_nonzero(costs) ==
    LET mean_cost == MeanInt(costs)
    IN  IF mean_cost.k = "fin" /\ mean_cost.n # 0
        THEN Num(Sign(mean_cost.n)
                 * RoundRoot(VarTimesN2(costs), SumSeq(costs) * SumSeq(costs), 2) * 10)
        ELSE Num(0)

\* np.mean of no cost is nan, and nan > 0 is False: cv = 0.  Otherwise
\* std / mean = sqrt(n^2 var) / sum, and round(100 * that, 2) counts
\* hundredths.
calculate_coefficient_of_variation(costs) ==
    LET mean_cost == MeanInt(costs)
    IN  IF mean_cost.k = "fin" /\ mean_cost.n > 0
        THEN Num(RoundRoot(VarTimesN2(costs), SumSeq(costs) * SumSeq(costs), 2) * 10)
        ELSE Num(0)

\* The static methods need no evaluator: none is built.
InitKpi ==
    /\ actual = <<>>
    /\ predicted = <<>>
    /\ forecast_lower = Absent
    /\ forecast_upper = Absent
    /\ op = "static"
    /\ args = <<>>
    /\ result = None
    /\ summary_csv = None
    /\ first_call = Untracked

CalculateWasteRate ==
    \E total_cost \in KpiVals, idle_cost \in KpiVals :
        /\ op' = "calculate_waste_rate"
        /\ args' = <<total_cost, idle_cost>>
        /\ result' = calculate_waste_rate(total_cost, idle_cost)
        /\ UNCHANGED <<evaluator, summary_csv>>
        /\ RecordCall

CalculateUnitCost ==
    \E total_cost \in KpiVals, total_units \in KpiVals :
        /\ op' = "calculate_unit_cost"
        /\ args' = <<total_cost, total_units>>
        /\ result' = calculate_unit_cost(total_cost, total_units)
        /\ UNCHANGED <<evaluator, summary_csv>>
        /\ RecordCall

CalculateBudgetVariance ==
    \E actual_cost \in KpiVals, budgeted_cost \in KpiVals :
        /\ op' = "calculate_budget_variance"
        /\ args' = <<actual_cost, budgeted_cost>>
        /\ result' = calculate_budget_variance(actual_cost, budgeted_cost)
        /\ UNCHANGED <<evaluator, summary_csv>>
        /\ RecordCall

CalculateRiSpCoverage ==
    \E total_hours \in KpiVals, covered_hours \in KpiVals :
        /\ op' = "calculate_ri_sp_coverage"
        /\ args' = <<total_hours, covered_hours>>
        /\ result' = calculate_ri_sp_coverage(total_hours, covered_hours)
        /\ UNCHANGED <<evaluator, summary_csv>>
        /\ RecordCall

CalculateRiSpUtilization ==
    \E purchased_hours \in KpiVals, used_hours \in KpiVals :
        /\ op' = "calculate_ri_sp_utilization"
        /\ args' = <<purchased_hours, used_hours>>
        /\ result' = calculate_ri_sp_utilization(purchased_hours, used_hours)
        /\ UNCHANGED <<evaluator, summary_csv>>
        /\ RecordCall

CalculateTagCompliance ==
    \E total_resources \in KpiVals, tagged_resources \in KpiVals :
        /\ op' = "calculate_tag_compliance"
        /\ args' = <<total_resources, tagged_resources>>
        /\ result' = calculate_tag_compliance(total_resources, tagged_resources)
        /\ UNCHANGED <<evaluator, summary_csv>>
        /\ RecordCall

NextKpi ==
    \/ CalculateWasteRate
    \/ CalculateUnitCost
    \/ CalculateBudgetVariance
    \/ CalculateRiSpCoverage
    \/ CalculateRiSpUtilization
    \/ CalculateTagCompliance

SpecKpi == InitKpi /\ [][NextKpi]_vars

\* ------------------------------------------------- growth and dispersion
\* calculate_cagr and calculate_coefficient_of_variation applied to the
\* arguments a caller passes: three numbers, or one sequence of costs.
CagrArgs == CagrVals \X CagrVals \X YearVals
CostArgs == {<<costs>> : costs \in SeqsUpTo(CostVals, MaxCosts)}

InitGrowth ==
    /\ actual = <<>>
    /\ predicted = <<>>
    /\ forecast_lower = Absent
    /\ forecast_upper = Absent
    /\ op = "static"
    /\ args \in CagrArgs \cup CostArgs
    /\ result = None
    /\ summary_csv = None
    /\ first_call = Untracked

\* One call of the static calculate_cagr with the arguments a.
CagrCall(a) ==
    /\ Len(a) = 3
    /\ op' = "calculate_cagr"
    /\ args' = a
    /\ result' = calculate_cagr(a[1], a[2], a[3])
    /\ UNCHANGED <<evaluator, summary_csv>>
    /\ RecordCall

\* One call of the static calculate_coefficient_of_variation with the
\* arguments a.
CoefficientOfVariationCall(a) ==
    /\ Len(a) = 1
    /\ op' = "calculate_coefficient_of_variation"
    /\ args' = a
    /\ result' = calculate_coefficient_of_variation(a[1])
    /\ UNCHANGED <<evaluator, summary_csv>>
    /\ RecordCall

\* The growth runs draw the arguments once, in InitGrowth, and call the
\* method on them.
CalculateCagr == CagrCall(args)

CalculateCoefficientOfVariation == CoefficientOfVariationCall(args)

NextGrowth ==
    \/ CalculateCagr
    \/ CalculateCoefficientOfVariation

SpecGrowth == InitGrowth /\ [][NextGrowth]_vars

\* ------------------------------------------------- sequences of calls
\* An evaluator of equal-length series over 0 and 2 with up to two entries,
\* with or without each bound of the interval, on which every forecast
\* metric and the static calculate_cagr and
\* calculate_coefficient_of_variation are called in any order: a static
\* method needs no evaluator state, so each call of one is enabled in every
\* state and draws its own arguments.
CallSeries == SeqsUpTo({0, 2}, 2)

CallCagrArgs == {<<100, 121, 2>>, <<1, 0 - 1, 2>>}

CallCostArgs == {<<costs>> : costs \in NaiveForecasts}

InitCalls ==
    /\ actual \in CallSeries
    /\ predicted \in SeqsOfLen({0, 2}, Len(actual))
    /\ forecast_lower \in {Absent, Given([i \in DOMAIN actual |-> 0])}
    /\ forecast_upper \in {Absent, Given(predicted)}
    /\ op = "__init__"
    /\ args = <<>>
    /\ result = None
    /\ summary_csv = None
    /\ first_call = None

StaticCagr == \E a \in CallCagrArgs : CagrCall(a)

StaticCoefficientOfVariation == \E a \in CallCostArgs : CoefficientOfVariationCall(a)

NextCalls ==
    \/ CalculateMape
    \/ CalculateSmape
    \/ CalculateWape
    \/ CalculateMae
    \/ CalculateRmse
    \/ CalculateMdape
    \/ CalculateR2
    \/ CalculateBias
    \/ CalculateBiasPercentage
    \/ CalculatePicp
    \/ CalculateMase
    \/ GetAllForecastMetrics
    \/ StaticCagr
    \/ StaticCoefficientOfVariation

SpecCalls == InitCalls /\ [][NextCalls]_vars

\* ------------------------------------------- evaluator with an interval
\* An evaluator built with a prediction interval of the length of actual
\* (either bound may be left out).  calculate_picp never reads predicted,
\* which is the perfect forecast here.
BoundChoices(n) == {Absent} \cup {Given(s) : s \in SeqsOfLen(IvVals, n)}

InitPicp ==
    /\ actual \in SeqsUpTo(IvVals, MaxIvLen)
    /\ predicted = actual
    /\ forecast_lower \in BoundChoices(Len(actual))
    /\ forecast_upper \in BoundChoices(Len(actual))
    /\ op = "__init__"
    /\ args = <<>>
    /\ result = None
    /\ summary_csv = None
    /\ first_call = Untracked

NextPicp ==
    \/ CalculatePicp
    \/ GetAllForecastMetrics

SpecPicp == InitPicp /\ [][NextPicp]_vars

\* The same evaluators and one built from the long series, for
\* calculate_picp alone.
InitCoverage ==
    /\ \/ /\ actual \in SeqsUpTo(IvVals, MaxIvLen)
          /\ forecast_lower \in BoundChoices(Len(actual))
          /\ forecast_upper \in BoundChoices(Len(actual))
       \/ /\ actual = LongIvFlat
          /\ forecast_lower = Given(LongIvFlat)
          /\ forecast_upper = Given(LongIvStep)
    /\ predicted = actual
    /\ op = "__init__"
    /\ args = <<>>
    /\ result = None
    /\ summary_csv = None
    /\ first_call = Untracked

NextCoverage == CalculatePicp

SpecCoverage == InitCoverage /\ [][NextCoverage]_vars

\* ------------------------------- generate_comprehensive_metrics_report
\* The table df is given by its cost_inr column and its optional columns
\* idle_cost_inr and cpu_utilization.  The date column only enters num_years
\* (see Cagr below); forecast_df is never read.  summary_csv is the table
\* written to comprehensive_metrics_summary.csv (None while no file is
\* written); printing and the image files of the plots are left out.
Min(x, y) == IF x <= y THEN x ELSE y

\* int(len(df) * 0.8)
split_idx(n) == (8 * n) \div 10

\* np.convolve(a, np.ones(7) / 7, mode='valid') for a non-empty a: one
\* entry per full overlap of the shorter sequence with the longer one.
Convolve(a) ==
    LET m == Len(a)
    IN  IF m >= 7
        THEN [i \in 1..(m - 6) |-> SumSeq(SubSeq(a, i, i + 6)) \div 7]
        ELSE [i \in 1..(8 - m) |-> SumSeq(a) \div 7]

\* s[-t:]: the last t entries, all of s when it has fewer or when t = 0.
LastOf(s, t) ==
    IF t = 0 \/ t >= Len(s) THEN s
    ELSE SubSeq(s, Len(s) - t + 1, Len(s))

\* The series handed to AdvancedMetricsEvaluator: np.convolve raises
\* ValueError ("v cannot be empty") when the training partition is empty.
TestSeries(cost_inr) ==
    LET n == Len(cost_inr)
        train == SubSeq(cost_inr, 1, split_idx(n))
        test == SubSeq(cost_inr, split_idx(n) + 1, n)
    IN  IF Len(train) = 0
        THEN [raised |-> TRUE, test_actual |-> <<>>, test_predicted |-> <<>>]
        ELSE LET moving == LastOf(Convolve(train), Len(test))
                 min_len == Min(Len(test), Len(moving))
             IN  [raised |-> FALSE,
                  test_actual |-> SubSeq(test, 1, min_len),
                  test_predicted |-> SubSeq(moving, 1, min_len)]

\* x <= bound and x < bound as Python compares floats (bound in
\* thousandths): false for nan.
AtMost(x, bound) == (IsNum(x) /\ x.v <= bound) \/ (x.k = "inf" /\ x.v < 0)
Below(x, bound) == (IsNum(x) /\ x.v < bound) \/ (x.k = "inf" /\ x.v < 0)

\* head(30) and tail(30) hold the same number of rows, so the ratio of their
\* means is the ratio of their sums; num_years is taken as 1, the first and
\* last date being a year apart.
Cagr(cost_inr) ==
    LET rows == Min(30, Len(cost_inr))
    IN  calculate_cagr(SumSeq(SubSeq(cost_inr, 1, rows)),
                       SumSeq(LastOf(cost_inr, rows)), 1)

\* A column of numbers and None is stored as float64: None becomes nan and
\* every other entry keeps its value.
ToFloat64(values) ==
    [i \in DOMAIN values |-> IF values[i].k = "none" THEN NaN ELSE values[i]]

\* pd.DataFrame raises ValueError when its columns differ in length; the
\* Value column is the numeric one, the other four hold strings.
DataFrame(columns) ==
    IF \A c \in DOMAIN columns : Len(columns[c]) = Len(columns.category)
    THEN [k |-> "table", v |-> [columns EXCEPT !.value = ToFloat64(@)]]
    ELSE Raise("ValueError")

\* The metrics summary table, column by column.  budgeted_cost is
\* total_cost * 1.05: variance_pct is the same for 20 and 21 times
\* total_cost.
MetricsSummary(cost_inr, idle_cost_inr, cpu_utilization, forecast_metrics) ==
    LET calls == MetricCalls(<<>>, <<>>, Absent, Absent)
        keys == [i \in DOMAIN forecast_metrics.v |-> calls[i][1]]
        total_cost == SumSeq(cost_inr)
        total_idle == IF idle_cost_inr.given THEN SumSeq(idle_cost_inr.val)
                      ELSE 0
        waste_rate == calculate_waste_rate(total_cost, total_idle)
        total_requests == Len(cost_inr) * 10000
        unit_cost == calculate_unit_cost(total_cost, total_requests)
        variance == calculate_budget_variance(20 * total_cost, 21 * total_cost)
        coverage == Num(65000)
        utilization == Num(92000)
        tag_compliance == Num(88000)
        cagr == Cagr(cost_inr)
        cv == calculate_coefficient_of_variation(cost_inr)
        mape == forecast_metrics.v[1]
    IN  DataFrame(
          [category |->
               [i \in 1..Len(forecast_metrics.v) |-> "Forecast Accuracy"]
               \o [i \in 1..7 |-> "FinOps KPI"]
               \o [i \in 1..2 |-> "Operational"],
           name |->
               keys
               \o <<"Waste Rate (%)", "Unit Cost (INR)", "Budget Variance (%)",
                    "RI/SP Coverage (%)", "RI/SP Utilization (%)",
                    "Tag Compliance (%)", "CAGR (%)">>
               \o <<"Spending Volatility (CV %)", "Avg CPU Utilization (%)">>,
           value |->
               forecast_metrics.v
               \o <<waste_rate, unit_cost, variance.v.variance_pct,
                    coverage, utilization, tag_compliance, cagr>>
               \o <<cv, IF cpu_utilization.given
                        THEN MeanInt(cpu_utilization.val) ELSE Num(0)>>,
           target |->
               <<"<=15%", "<=15%", "<=15%", "-", "-", "-", ">=0.85",
                 "+-5%", "+-5%", "93-97%">>
               \o <<"<15%", "-", "+-5%", "60-80%", ">=90%", ">=90%", "-",
                    "<20%", ">=70%">>,
           status |->
               [i \in 1..10 |->
                    IF AtMost(mape, 15000) THEN "Pass" ELSE "Review"]
               \o <<IF Below(waste_rate, 15000) THEN "Pass" ELSE "Review",
                    "N/A",
                    IF AtMost([variance.v.variance_pct EXCEPT
                                   !.v = Abs(variance.v.variance_pct.v)], 5000)
                    THEN "Pass" ELSE "Review",
                    "Pass", "Pass", "Review", "Pass", "Pass", "Review">>])

\* The rest of plot_forecast_accuracy once the histogram is drawn: the
\* metrics text calls get_all_forecast_metrics again, whose exception (for
\* empty series, the ValueError of calculate_mae) ends the plot.
MetricsText(metrics) == IF IsRaise(metrics) THEN metrics ELSE None

\* plot_forecast_accuracy of an evaluator without an interval, on series of
\* equal length: the percentage errors (actual - predicted) / actual * 100
\* are taken without a mask and handed to hist, which raises ValueError when
\* one of them is infinite (a zero actual with a non-zero error) or when all
\* of them are nan (every pair 0 and 0); nan among finite values is skipped,
\* and no value at all is drawn as an empty histogram.
plot_forecast_accuracy(a, p) ==
    IF \/ \E i \in DOMAIN a : a[i] = 0 /\ p[i] # 0
       \/ a # <<>> /\ \A i \in DOMAIN a : a[i] = 0
    THEN Raise("ValueError")
    ELSE MetricsText(get_all_forecast_metrics(a, p, Absent, Absent))

\* The end of the function: the table is written to the CSV file, then the
\* plots are drawn, then the table is returned.
SaveAndPlot(metrics_summary, plot) ==
    IF IsRaise(metrics_summary)
    THEN [result |-> metrics_summary, written |-> None]
    ELSE IF IsRaise(plot)
    THEN [result |-> plot, written |-> metrics_summary]
    ELSE [result |-> metrics_summary, written |-> metrics_summary]

\* The function from the forecast metrics of the evaluator on.
SummariseMetrics(df, forecast_metrics, plot) ==
    IF IsRaise(forecast_metrics)
    THEN [result |-> forecast_metrics, written |-> None]
    ELSE SaveAndPlot(MetricsSummary(df[1], df[2], df[3], forecast_metrics),
                     plot)

\* The whole function: the split and the evaluator's series, the forecast
\* metrics, the table and its CSV file, then the plots; an exception ends it
\* where it is raised.
generate_comprehensive_metrics_report(df) ==
    LET series == TestSeries(df[1])
    IN  IF series.raised
        THEN [result |-> Raise("ValueError"), written |-> None]
        ELSE SummariseMetrics(
                 df,
                 get_all_forecast_metrics(series.test_actual,
                                          series.test_predicted, Absent, Absent),
                 plot_forecast_accuracy(series.test_actual,
                                        series.test_predicted))

\* The tables a caller passes: cost_inr of up to MaxRows rows, with or
\* without an idle_cost_inr column (every cost idle) and a cpu_utilization
\* column (70 on every row).
ReportArgs ==
    UNION {{<<cost_inr, idle_cost_inr, cpu_utilization>> :
                idle_cost_inr \in {Absent, Given(cost_inr)},
                cpu_utilization \in
                    {Absent, Given([i \in 1..Len(cost_inr) |-> 70])}} :
           cost_inr \in SeqsUpTo(ReportVals, MaxRows)}

InitReport ==
    /\ actual = <<>>
    /\ predicted = <<>>
    /\ forecast_lower = Absent
    /\ forecast_upper = Absent
    /\ op = "main"
    /\ args \in ReportArgs
    /\ result = None
    /\ summary_csv = None
    /\ first_call = Untracked

\* The evaluator is built from the trimmed series once np.convolve has
\* returned; before that no evaluator exists.
GenerateComprehensiveMetricsReport ==
    \E report \in {generate_comprehensive_metrics_report(args)} :
        /\ op' = "generate_comprehensive_metrics_report"
        /\ result' = report.result
        /\ summary_csv' = IF report.written.k = "none" THEN summary_csv
                          ELSE report.written
        /\ IF TestSeries(args[1]).raised
           THEN UNCHANGED <<actual, predicted>>
           ELSE /\ actual' = TestSeries(args[1]).test_actual
                /\ predicted' = TestSeries(args[1]).test_predicted
        /\ UNCHANGED <<forecast_lower, forecast_upper, args, first_call>>

NextReport == GenerateComprehensiveMetricsReport

SpecReport == InitReport /\ [][NextReport]_vars

\* ================================================================ claims
AllZero(s) == \A i \in DOMAIN s : s[i] = 0

\* x >= y as the floats compare: false when either side is no number.
Geq(x, y) == IsNum(x) /\ IsNum(y) /\ x.v >= y.v

\* v thousandths is n/d * scale rounded to 2 decimals (d > 0).
IsRounded2(v, n, d, scale) ==
    /\ v % 10 = 0
    /\ Abs(v * d - 1000 * scale * n) <= 5 * d

\* C1: every ratio-based metric returns a defined sentinel (0, or the
\* documented undefined marker: None, and infinity for MASE) when its
\* denominator is zero; it never raises and never returns NaN or an
\* undocumented infinity.  Stated for non-empty equal-length series, where
\* the zero denominator comes from the entries and not from the length.
C1_ZeroDenominatorSentinel ==
    LET zero_denominator ==
            \/ op \in {"calculate_mape", "calculate_mdape"} /\ AllZero(actual)
            \/ op = "calculate_smape" /\ AllZero(actual) /\ AllZero(predicted)
            \/ op = "calculate_wape" /\ AllZero(actual)
            \/ op = "calculate_bias_percentage" /\ SumSeq(actual) = 0
            \/ op = "calculate_mase" /\ AllZero(args[1]) /\ Len(args[1]) >= 1
    IN  (Len(actual) = Len(predicted) /\ Len(actual) >= 1 /\ zero_denominator)
            => \/ result \in {Num(0), None}
               \/ op = "calculate_mase" /\ result = Inf(1)

\* C2: with predicted equal to actual elementwise, MAE, RMSE, MAPE, sMAPE,
\* WAPE and Bias are 0 and R2 is 1.  Stated for the series of two or more
\* entries (R2 needs two samples).
C2_RoundTrip ==
    (predicted = actual /\ Len(actual) >= 2) =>
        /\ op \in {"calculate_mae", "calculate_rmse", "calculate_mape",
                   "calculate_smape", "calculate_wape", "calculate_bias"}
               => result = Num(0)
        /\ op = "calculate_r2" => result = Num(1000)

\* C3: with actual and predicted of different lengths (both >= 1), every
\* metric call and get_all_forecast_metrics fails with an error.
\* (calculate_picp reads no predicted value and is left out.)
C3_MismatchFailsFast ==
    (/\ Len(actual) # Len(predicted)
     /\ Len(actual) >= 1
     /\ Len(predicted) >= 1
     /\ op \notin {"__init__", "calculate_picp"})
        => IsRaise(result)

\* A returned value that is numerically defined or a documented fallback.
Defined(name, r) ==
    \/ IsNum(r)
    \/ name = "calculate_picp" /\ r = None
    \/ name = "calculate_mase" /\ r = Inf(1)

\* C4: for equal-length actual and predicted (zero entries included) no
\* forecast metric raises and each result is numerically defined or the
\* documented fallback.  Stated for the series of two or more entries and a
\* non-empty naive_forecast.
C4_WellFormedNeverRaises ==
    (/\ Len(actual) = Len(predicted)
     /\ Len(actual) >= 2
     /\ op # "__init__"
     /\ op = "calculate_mase" => Len(args[1]) >= 1) =>
        IF op = "get_all_forecast_metrics"
        THEN /\ result.k = "dict"
             /\ \A i \in DOMAIN result.v :
                    IsNum(result.v[i]) \/ (i = 10 /\ result.v[i] = None)
        ELSE Defined(op, result)

\* C5: for equal-length actual and predicted with no zero entry in actual,
\* MAPE, sMAPE, WAPE and MdAPE are each a value >= 0.
C5_PercentageErrorsNonNegative ==
    (/\ Len(actual) = Len(predicted)
     /\ \A i \in DOMAIN actual : actual[i] # 0
     /\ op \in {"calculate_mape", "calculate_smape", "calculate_wape",
                "calculate_mdape"})
        => Geq(result, Num(0))

\* The intervals of the interval specification that contain [lower, upper]
\* at every index.
Wider(lower, upper) ==
    {w \in SeqsOfLen(IvVals, Len(lower)) \X SeqsOfLen(IvVals, Len(upper)) :
        /\ \A i \in DOMAIN lower : w[1][i] <= lower[i]
        /\ \A i \in DOMAIN upper : upper[i] <= w[2][i]}

\* C6: for the same actual, PICP over an interval that contains the first at
\* every index is >= PICP over the first.
C6_PicpMonotone ==
    (op = "calculate_picp" /\ forecast_lower.given /\ forecast_upper.given) =>
        \A w \in Wider(forecast_lower.val, forecast_upper.val) :
            Geq(calculate_picp(actual, Given(w[1]), Given(w[2])), result)

\* C7: calculate_picp returns None when a bound is missing, and otherwise 100
\* times the fraction of the indices i with lower[i] <= actual[i] <= upper[i],
\* both ends inclusive (rounded to 2 decimals).
C7_PicpValue ==
    op = "calculate_picp" =>
        IF ~forecast_lower.given \/ ~forecast_upper.given
        THEN result = None
        ELSE LET n == Len(actual)
                 covered == {i \in 1..n :
                                /\ forecast_lower.val[i] <= actual[i]
                                /\ actual[i] <= forecast_upper.val[i]}
             IN  n > 0 => /\ IsNum(result)
                          /\ IsRounded2(result.v, Cardinality(covered), n, 100)

\* C7 witness: an interval covers one of two actual values, its end included.
C7_Witness ==
    /\ op = "calculate_picp"
    /\ actual = <<1, 1>>
    /\ forecast_lower = Given(<<0, 0>>)
    /\ forecast_upper = Given(<<1, 0>>)
    /\ result = Num(50000)

\* The numerator, the denominator and the scale of a ratio KPI call.
KpiRatio ==
    CASE op = "calculate_waste_rate" -> <<args[2], args[1], 100>>
      [] op = "calculate_unit_cost" -> <<args[1], args[2], 1>>
      [] op = "calculate_ri_sp_coverage" -> <<args[2], args[1], 100>>
      [] op = "calculate_ri_sp_utilization" -> <<args[2], args[1], 100>>
      [] op = "calculate_tag_compliance" -> <<args[2], args[1], 100>>

RatioKpis ==
    {"calculate_waste_rate", "calculate_unit_cost", "calculate_ri_sp_coverage",
     "calculate_ri_sp_utilization", "calculate_tag_compliance"}

\* C8: each ratio KPI returns 0 when its denominator is <= 0, whatever the
\* numerator, and otherwise numerator / denominator (x 100 for the
\* percentages), rounded to 2 decimals.
C8_RatioKpiGuard ==
    op \in RatioKpis =>
        LET num == KpiRatio[1]
            den == KpiRatio[2]
        IN  IF den <= 0 THEN result = Num(0)
            ELSE IsNum(result) /\ IsRounded2(result.v, num, den, KpiRatio[3])

\* C8 witness: utilization with a negative purchased_hours and hours used.
C8_Witness ==
    /\ op = "calculate_ri_sp_utilization"
    /\ args = <<0 - 1, 5>>
    /\ result = Num(0)

\* C9: for total_cost > 0 the waste rate is 0 when idle_cost is 0 and 100 when
\* idle_cost equals total_cost.
C9_WasteRateEnds ==
    (op = "calculate_waste_rate" /\ args[1] > 0) =>
        /\ args[2] = 0 => result = Num(0)
        /\ args[2] = args[1] => result = Num(100000)

\* C9 witness: all of a positive cost is idle.
C9_Witness ==
    /\ op = "calculate_waste_rate"
    /\ args = <<3, 3>>
    /\ result = Num(100000)

\* C10 as stated: variance_inr is actual - budgeted and, for budgeted > 0,
\* variance_pct is (actual - budgeted) / budgeted x 100, both positive exactly
\* when actual exceeds budget.
C10_BothPositiveIffOver ==
    (op = "calculate_budget_variance" /\ args[2] > 0) =>
        /\ result.v.variance_inr = Num(1000 * (args[1] - args[2]))
        /\ result.v.variance_inr.v > 0 <=> args[1] > args[2]
        /\ result.v.variance_pct.v > 0 <=> args[1] > args[2]

\* C10 amended: variance_inr is actual - budgeted, positive exactly when
\* actual exceeds budget; for budgeted > 0 variance_pct is
\* (actual - budgeted) / budgeted x 100 rounded to 2 decimals, so it never has
\* the opposite sign and is 0 only when the percentage is within 0.005 of 0;
\* actual = 110, budgeted = 100 gives 10 and 10.0.
C10_BudgetVariance ==
    op = "calculate_budget_variance" =>
        LET a == args[1]
            b == args[2]
            inr == result.v.variance_inr
            pct == result.v.variance_pct
        IN  /\ inr = Num(1000 * (a - b))
            /\ inr.v > 0 <=> a > b
            /\ b > 0 => /\ IsNum(pct)
                        /\ IsRounded2(pct.v, a - b, b, 100)
                        /\ pct.v > 0 => a > b
                        /\ pct.v < 0 => a < b
                        /\ 20000 * Abs(a - b) > b => pct.v # 0
            /\ (a = 110 /\ b = 100) => (inr = Num(10000) /\ pct = Num(10000))

\* C10 witness: the budget example.
C10_Witness ==
    /\ op = "calculate_budget_variance"
    /\ args = <<110, 100>>
    /\ result.v.variance_inr = Num(10000)
    /\ result.v.variance_pct = Num(10000)

\* C11: with budgeted_cost <= 0, calculate_budget_variance raises nothing:
\* it returns the dictionary with variance_pct = 0 and variance_inr still
\* actual_cost - budgeted_cost.
C11_NonPositiveBudget ==
    (op = "calculate_budget_variance" /\ args[2] <= 0) =>
        /\ result.k = "dict"
        /\ result.v.variance_pct = Num(0)
        /\ result.v.variance_inr = Num(1000 * (args[1] - args[2]))

\* C11 witness: a spend of 5 against a budget of -1.
C11_Witness ==
    /\ op = "calculate_budget_variance"
    /\ args = <<5, 0 - 1>>
    /\ result.v.variance_pct = Num(0)
    /\ result.v.variance_inr = Num(6000)

\* v thousandths is (f/i)^(1/y) x 10000 / 100 + shift rounded to 2 decimals
\* (f >= 0, i > 0, y >= 1): with h the hundredths of v - shift and K = 2h,
\* ((K - 1) / 20000)^y <= f/i <= ((K + 1) / 20000)^y.
IsRoundedRoot(v, shift, f, i, y) ==
    LET K == 2 * ((v - shift) \div 10)
        target == PowTimes(20000, y, f)
    IN  /\ v % 10 = 0
        /\ K >= 0
        /\ K = 0 \/ BigLeq(PowTimes(K - 1, y, i), target)
        /\ BigLeq(target, PowTimes(K + 1, y, i))

\* C12: for initial_cost > 0 and num_years > 0, whatever final_cost is,
\* calculate_cagr returns the number
\* ((final_cost / initial_cost)^(1 / num_years) - 1) x 100 rounded to 2
\* decimals; initial = 100, final = 121, years = 2 gives 10.0.
C12_CagrFormula ==
    (op = "calculate_cagr" /\ args[1] > 0 /\ args[3] > 0) =>
        /\ IsNum(result)
        /\ args[3] = 1 =>
               IsRounded2(result.v, args[2] - args[1], args[1], 100)
        /\ args[2] >= 0 =>
               IsRoundedRoot(result.v, 0 - 100000, args[2], args[1], args[3])
        /\ args = <<100, 121, 2>> => result = Num(10000)

\* C13: calculate_cagr returns 0 whenever initial_cost <= 0 or
\* num_years <= 0, for every final_cost, and raises nothing.
C13_CagrGuard ==
    (op = "calculate_cagr" /\ (args[1] <= 0 \/ args[3] <= 0)) => result = Num(0)

\* C13 witness: a positive initial_cost, a negative final_cost, zero years.
C13_Witness ==
    /\ op = "calculate_cagr"
    /\ args = <<5, 0 - 1, 0>>
    /\ result = Num(0)

\* C14: calculate_coefficient_of_variation returns 0 for every constant
\* series (all entries equal).
C14_ConstantSeries ==
    (/\ op = "calculate_coefficient_of_variation"
     /\ \A i \in DOMAIN args[1] : args[1][i] = args[1][1])
        => result = Num(0)

\* C14 witness: the series [50, 50, 50].
C14_Witness ==
    /\ op = "calculate_coefficient_of_variation"
    /\ args = << <<50, 50, 50>> >>
    /\ result = Num(0)

\* C15: calculate_coefficient_of_variation returns 0 whenever the mean of
\* costs is <= 0 (no cost at all included), and otherwise
\* stddev(costs) / mean(costs) x 100 rounded to 2 decimals, which is >= 0.
C15_CoefficientOfVariation ==
    op = "calculate_coefficient_of_variation" =>
        LET costs == args[1]
            total == SumSeq(costs)
        IN  IF Len(costs) = 0 \/ total <= 0 THEN result = Num(0)
            ELSE /\ IsNum(result)
                 /\ result.v >= 0
                 /\ IsRoundedRoot(result.v, 0, VarTimesN2(costs), total * total, 2)

\* C15 witness: no cost at all (the mean is nan).
C15_Witness ==
    /\ op = "calculate_coefficient_of_variation"
    /\ args = << <<>> >>
    /\ result = Num(0)

\* The least common multiple of den[i] over the indices in I (den[i] > 0).
RECURSIVE LcmOver(_, _)
LcmOver(I, den) ==
    IF I = {} THEN 1
    ELSE LET i == CHOOSE j \in I : TRUE
             rest == LcmOver(I \ {i}, den)
         IN  (den[i] * rest) \div Gcd(den[i], rest)

RECURSIVE SumOver(_, _)
SumOver(I, f) ==
    IF I = {} THEN 0
    ELSE LET i == CHOOSE j \in I : TRUE
         IN  f[i] + SumOver(I \ {i}, f)

\* v thousandths is 100 times the mean of num[i] / den[i] over the indices
\* in I (not empty, den[i] > 0), rounded to 2 decimals.
IsMeanOfRatios(v, I, num, den) ==
    LET D == LcmOver(I, den)
        N == SumOver(I, [i \in I |-> num[i] * (D \div den[i])])
    IN  IsRounded2(v, N, D * Cardinality(I), 100)

\* The indices with a non-zero actual value.
NonZeroActual == {i \in DOMAIN actual : actual[i] # 0}

\* The indices where actual and predicted are not both zero.
NonZeroDenominator ==
    {i \in DOMAIN actual : Abs(actual[i]) + Abs(predicted[i]) # 0}

\* C16: calculate_mape returns 100 times the mean of
\* |actual[i] - predicted[i]| / |actual[i]| over exactly the indices i with
\* actual[i] != 0 (rounded to 2 decimals): an entry with actual[i] = 0 adds
\* nothing to the sum and nothing to the count.  Stated where such an index
\* exists.
C16_MapeValue ==
    (op = "calculate_mape" /\ NonZeroActual # {}) =>
        /\ IsNum(result)
        /\ IsMeanOfRatios(result.v, NonZeroActual,
                          [i \in DOMAIN actual |-> Abs(actual[i] - predicted[i])],
                          [i \in DOMAIN actual |-> Abs(actual[i])])

\* C16 witness: one zero among three actual values; the other two have the
\* percentage errors 50 and 0.
C16_Witness ==
    /\ op = "calculate_mape"
    /\ actual = <<0, 2, 0 - 1>>
    /\ predicted = <<2, 1, 0 - 1>>
    /\ result = Num(25000)

\* C17: calculate_smape returns 100 times the mean of
\* |actual[i] - predicted[i]| / ((|actual[i]| + |predicted[i]|) / 2) over
\* exactly the indices i where that denominator is non-zero (rounded to 2
\* decimals).  Stated where such an index exists.
C17_SmapeValue ==
    (op = "calculate_smape" /\ NonZeroDenominator # {}) =>
        /\ IsNum(result)
        /\ IsMeanOfRatios(result.v, NonZeroDenominator,
                          [i \in DOMAIN actual |-> 2 * Abs(actual[i] - predicted[i])],
                          [i \in DOMAIN actual |-> Abs(actual[i]) + Abs(predicted[i])])

\* C17 witness: both values are zero at the first index, only actual is at
\* the second; the ratios kept are 2 and 2/3.
C17_Witness ==
    /\ op = "calculate_smape"
    /\ actual = <<0, 0, 1>>
    /\ predicted = <<0, 2, 2>>
    /\ result = Num(133330)

\* C18: calculate_wape returns sum(|actual - predicted|) / sum(|actual|) x 100
\* (rounded to 2 decimals) when sum(|actual|) > 0, and the undefined marker
\* None instead of a number when sum(|actual|) = 0.  Stated for non-empty
\* series.
C18_WapeUndefinedMarker ==
    (op = "calculate_wape" /\ Len(actual) >= 1) =>
        LET den == SumSeq([i \in DOMAIN actual |-> Abs(actual[i])])
            num == SumSeq([i \in DOMAIN actual |-> Abs(actual[i] - predicted[i])])
        IN  IF den > 0 THEN IsNum(result) /\ IsRounded2(result.v, num, den, 100)
            ELSE result = None

\* The absolute percentage error at i is below the one at j (actual non-zero
\* at both).
ApeLess(i, j) ==
    Abs(actual[i] - predicted[i]) * Abs(actual[j])
        < Abs(actual[j] - predicted[j]) * Abs(actual[i])

ApeBelow(i) == Cardinality({j \in NonZeroActual : ApeLess(j, i)})
ApeAbove(i) == Cardinality({j \in NonZeroActual : ApeLess(i, j)})

\* C19: calculate_mdape returns the median of
\* |actual[i] - predicted[i]| / |actual[i]| x 100 over exactly the indices i
\* with actual[i] != 0 (rounded to 2 decimals): the middle value of an odd
\* count, the mean of the two middle values of an even one.  The middle
\* values are told by counting the values below and above them.  Stated
\* where such an index exists.
C19_MdapeValue ==
    (op = "calculate_mdape" /\ NonZeroActual # {}) =>
        LET c == Cardinality(NonZeroActual)
            below == (c - 1) \div 2
            above == c \div 2
        IN  /\ IsNum(result)
            /\ \E i \in NonZeroActual, k \in NonZeroActual :
                   /\ ApeBelow(i) <= below /\ ApeAbove(i) <= above
                   /\ ApeBelow(k) <= above /\ ApeAbove(k) <= below
                   /\ IsRounded2(result.v,
                                 Abs(actual[i] - predicted[i]) * Abs(actual[k])
                                     + Abs(actual[k] - predicted[k]) * Abs(actual[i]),
                                 2 * Abs(actual[i]) * Abs(actual[k]), 100)

\* C19 witness: a zero actual value is left out and the median of the two
\* errors 50 and 100 is their mean.
C19_Witness ==
    /\ op = "calculate_mdape"
    /\ actual = <<0, 2, 1>>
    /\ predicted = <<1, 1, 2>>
    /\ result = Num(75000)

\* C20 as stated: calculate_bias is positive exactly when
\* sum(predicted) > sum(actual), negative exactly when
\* sum(predicted) < sum(actual), and swapping actual and predicted negates
\* it.
C20_SignExactlyWhen ==
    op = "calculate_bias" =>
        LET d == SumSeq(predicted) - SumSeq(actual)
        IN  /\ (IsNum(result) /\ result.v > 0) <=> d > 0
            /\ (IsNum(result) /\ result.v < 0) <=> d < 0
            /\ IsNum(result) => calculate_bias(predicted, actual) = Num(0 - result.v)

\* C20 amended: for non-empty series calculate_bias returns
\* mean(predicted - actual) rounded to 2 decimals: it is positive only when
\* sum(predicted) > sum(actual), negative only when
\* sum(predicted) < sum(actual), non-zero whenever the mean error exceeds
\* 0.005 in size (a smaller one may round to 0), and swapping actual and
\* predicted negates it.
C20_RoundedBias ==
    (op = "calculate_bias" /\ Len(actual) >= 1) =>
        LET d == SumSeq(predicted) - SumSeq(actual)
            n == Len(actual)
        IN  /\ IsNum(result)
            /\ IsRounded2(result.v, d, n, 1)
            /\ result.v > 0 => d > 0
            /\ result.v < 0 => d < 0
            /\ 200 * Abs(d) > n => result.v # 0
            /\ calculate_bias(predicted, actual) = Num(0 - result.v)

\* C20 witness: one of LongLen forecasts is 1 above its actual value and the
\* bias rounds to 0.
C20_Witness ==
    /\ op = "calculate_bias"
    /\ actual = LongFlat
    /\ predicted = LongStep
    /\ result = Num(0)

\* C21: calculate_bias_percentage returns 0 when mean(actual) = 0, whatever
\* predicted is and also when positive and negative actual values cancel,
\* and otherwise mean(predicted - actual) / mean(actual) x 100 (rounded to 2
\* decimals).  Stated for non-empty series.
C21_BiasPercentage ==
    (op = "calculate_bias_percentage" /\ Len(actual) >= 1) =>
        LET total == SumSeq(actual)
            d == SumSeq(predicted) - total
        IN  IF total = 0 THEN result = Num(0)
            ELSE /\ IsNum(result)
                 /\ IsRounded2(result.v, d * Sign(total), Abs(total), 100)

\* C21 witness: the actual values -1 and 1 cancel and the forecast is off.
C21_Witness ==
    /\ op = "calculate_bias_percentage"
    /\ actual = <<0 - 1, 1>>
    /\ predicted = <<2, 2>>
    /\ result = Num(0)

\* v thousandths is n/d rounded to 3 decimals (d > 0).
IsRounded3(v, n, d) == 2 * Abs(v * d - 1000 * n) <= d

\* C22: calculate_mase(naive_forecast) returns infinity, and raises nothing,
\* whenever every naive_forecast entry is 0 (mean(|naive_forecast|) = 0), and
\* otherwise mean(|actual - predicted|) / mean(|naive_forecast|) (rounded to
\* 3 decimals).  Stated for a non-empty naive_forecast; the value for
\* non-empty equal-length series.
C22_MaseValue ==
    (/\ op = "calculate_mase"
     /\ Len(actual) = Len(predicted)
     /\ Len(args[1]) >= 1) =>
        LET naive == args[1]
            M == SumSeq([i \in DOMAIN naive |-> Abs(naive[i])])
            E == SumSeq([i \in DOMAIN actual |-> Abs(actual[i] - predicted[i])])
        IN  IF M = 0 THEN result = Inf(1)
            ELSE Len(actual) >= 1 =>
                     /\ IsNum(result)
                     /\ IsRounded3(result.v, E * Len(naive), Len(actual) * M)

\* C22 witness: a perfect forecast scaled by an all-zero naive forecast
\* (0 / 0 without the guard).
C22_Witness ==
    /\ op = "calculate_mase"
    /\ args = << <<0>> >>
    /\ actual = <<2, 0, 0 - 1>>
    /\ predicted = <<2, 0, 0 - 1>>
    /\ result = Inf(1)

\* SS_res = sum((actual - predicted)^2) and n x SS_tot, where
\* SS_tot = sum((actual - mean(actual))^2) = sum(actual^2) - sum(actual)^2 / n.
SsRes == SumSeq([i \in DOMAIN actual |->
                    (actual[i] - predicted[i]) * (actual[i] - predicted[i])])
SsTotTimesN ==
    Len(actual) * SumSeq([i \in DOMAIN actual |-> actual[i] * actual[i]])
        - SumSeq(actual) * SumSeq(actual)

\* C23 as stated: calculate_r2 returns 1 - SS_res / SS_tot, a value <= 1 that
\* is negative exactly when SS_res > SS_tot.  Stated for two or more samples.
C23_NegativeExactlyWhen ==
    (op = "calculate_r2" /\ Len(actual) >= 2) =>
        /\ IsNum(result)
        /\ result.v <= 1000
        /\ result.v < 0 <=> Len(actual) * SsRes > SsTotTimesN

\* C23 amended: with two or more samples and SS_tot > 0, calculate_r2 returns
\* 1 - SS_res / SS_tot rounded to 3 decimals, a value <= 1 that is negative
\* only when SS_res > SS_tot and whenever SS_res exceeds SS_tot by more than
\* 0.05 %; with a constant actual (SS_tot = 0) it returns 1 for a perfect
\* prediction and 0 otherwise.
C23_R2Value ==
    (op = "calculate_r2" /\ Len(actual) >= 2) =>
        LET n == Len(actual)
            D == SsTotTimesN
        IN  IF D = 0 THEN result = (IF SsRes = 0 THEN Num(1000) ELSE Num(0))
            ELSE /\ IsNum(result)
                 /\ IsRounded3(result.v, D - n * SsRes, D)
                 /\ result.v <= 1000
                 /\ result.v < 0 => n * SsRes > D
                 /\ 2000 * (n * SsRes - D) > D => result.v < 0

\* C23 witness: a constant actual and an imperfect prediction: SS_res = 4
\* exceeds SS_tot = 0 and the score is 0.
C23_Witness ==
    /\ op = "calculate_r2"
    /\ actual = <<2, 2>>
    /\ predicted = <<2, 0>>
    /\ result = Num(0)

\* The keys of the mapping get_all_forecast_metrics builds for the evaluator.
MetricNames ==
    LET calls == MetricCalls(actual, predicted, forecast_lower, forecast_upper)
    IN  {calls[i][1] : i \in DOMAIN calls}

\* The value the individual operation with the given key returns.
IndividualValue(name) ==
    CASE name = "MAPE (%)" -> calculate_mape(actual, predicted)
      [] name = "sMAPE (%)" -> calculate_smape(actual, predicted)
      [] name = "WAPE (%)" -> calculate_wape(actual, predicted)
      [] name = "MAE (INR)" -> calculate_mae(actual, predicted)
      [] name = "RMSE (INR)" -> calculate_rmse(actual, predicted)
      [] name = "MdAPE (%)" -> calculate_mdape(actual, predicted)
      [] name = "R2 Score" -> calculate_r2(actual, predicted)
      [] name = "Bias (INR)" -> calculate_bias(actual, predicted)
      [] name = "Bias (%)" -> calculate_bias_percentage(actual, predicted)
      [] name = "PICP (%)" -> calculate_picp(actual, forecast_lower, forecast_upper)

\* C24: get_all_forecast_metrics returns a mapping with the full set of
\* forecast metrics (MAPE, sMAPE, WAPE, MAE, RMSE, MdAPE, R2, Bias, Bias %,
\* PICP and MASE: eleven entries), each value being the one the individual
\* operation returns.  Stated for equal-length series of two or more
\* entries.
C24_FullMapping ==
    (op = "get_all_forecast_metrics" /\ Len(actual) >= 2) =>
        LET calls == MetricCalls(actual, predicted, forecast_lower, forecast_upper)
        IN  /\ result.k = "dict"
            /\ \A i \in DOMAIN result.v : result.v[i] = IndividualValue(calls[i][1])
            /\ Len(result.v) = 11
            /\ "MASE" \in MetricNames

\* C25: every call of a sequence of metric and KPI calls leaves actual,
\* predicted, forecast_lower and forecast_upper unchanged, and a call that
\* repeats the first call of the sequence (same operation, same arguments)
\* returns what the first call returned, whatever was called in between.
C25_Stateless ==
    [][/\ evaluator' = evaluator
       /\ (/\ first_call'.k = "call"
           /\ op' = first_call'.op
           /\ args' = first_call'.args) => result' = first_call'.result]_vars

\* C25 witness: on an evaluator with both bounds, calculate_picp answers
\* after a sequence that began with calculate_mase; the arrays are as built.
C25_Witness ==
    /\ first_call.k = "call"
    /\ first_call.op = "calculate_mase"
    /\ first_call.args = << <<2>> >>
    /\ op = "calculate_picp"
    /\ actual = <<2, 0>>
    /\ predicted = <<0, 2>>
    /\ forecast_lower = Given(<<0, 0>>)
    /\ forecast_upper = Given(<<0, 2>>)
    /\ result = Num(50000)

\* C26: every number a forecast metric returns is a multiple of 0.01, except
\* R2, which is a multiple of 0.001 (as every value in thousandths is).
C26_TwoDecimals ==
    (/\ op \notin {"__init__", "get_all_forecast_metrics", "calculate_r2"}
     /\ IsNum(result))
        => result.v % 10 = 0

\* C29: for non-empty equal-length series calculate_mae() <= calculate_rmse(),
\* and the two are equal when all absolute errors are equal.
C29_MaeLeqRmse ==
    (/\ op \in {"calculate_mae", "calculate_rmse"}
     /\ Len(actual) = Len(predicted)
     /\ Len(actual) >= 1) =>
        LET mae == IF op = "calculate_mae" THEN result
                   ELSE calculate_mae(actual, predicted)
            rmse == IF op = "calculate_rmse" THEN result
                    ELSE calculate_rmse(actual, predicted)
        IN  /\ Geq(rmse, mae)
            /\ (\A i \in DOMAIN actual :
                    Abs(actual[i] - predicted[i]) = Abs(actual[1] - predicted[1]))
                   => rmse = mae

\* C29 witness: the absolute errors 3, 0 and 0 have the mean 1 and the root
\* mean square 1.73.
C29_Witness ==
    /\ op = "calculate_rmse"
    /\ actual = <<2, 0, 0>>
    /\ predicted = <<0 - 1, 0, 0>>
    /\ result = Num(1730)

\* The indices whose interval holds the actual value, and those whose
\* interval is inverted.
Covered ==
    {i \in DOMAIN actual :
        forecast_lower.val[i] <= actual[i] /\ actual[i] <= forecast_upper.val[i]}
Inverted == {i \in DOMAIN actual : forecast_lower.val[i] > forecast_upper.val[i]}

\* C30 as stated: with both bounds and a non-empty actual, calculate_picp is
\* in [0, 100], equals 100 exactly when every actual value lies in its
\* interval, and counts no index whose interval is inverted.
C30_HundredExactlyWhen ==
    (/\ op = "calculate_picp"
     /\ forecast_lower.given /\ forecast_upper.given
     /\ Len(actual) >= 1) =>
        /\ IsNum(result)
        /\ 0 <= result.v /\ result.v <= 100000
        /\ result.v = 100000 <=> Cardinality(Covered) = Len(actual)
        /\ Cardinality(Inverted) = Len(actual) => result.v = 0

\* C30 amended: with both bounds and a non-empty actual, calculate_picp is
\* in [0, 100]; it is 100 when every actual value lies in its interval, and
\* otherwise only when the values outside are at most 0.005 % of all (the
\* rounding to 2 decimals); an index whose interval is inverted is never
\* counted, so the result is at most the rounded share of the others.
C30_PicpRange ==
    (/\ op = "calculate_picp"
     /\ forecast_lower.given /\ forecast_upper.given
     /\ Len(actual) >= 1) =>
        LET n == Len(actual)
            outside == n - Cardinality(Covered)
        IN  /\ IsNum(result)
            /\ 0 <= result.v /\ result.v <= 100000
            /\ outside = 0 => result.v = 100000
            /\ result.v = 100000 => 20000 * outside <= n
            /\ outside > 0 /\ 20000 * outside > n => result.v < 100000
            /\ result.v * n <= 100000 * (n - Cardinality(Inverted)) + 5 * n

\* C30 witness: one of LongIvLen actual values has an inverted interval and
\* the coverage still rounds to 100.
C30_Witness ==
    /\ op = "calculate_picp"
    /\ actual = LongIvFlat
    /\ forecast_upper = Given(LongIvStep)
    /\ result = Num(100000)

\* C27: in generate_comprehensive_metrics_report, for every input table
\* length n >= 0, after the 80/20 split, the 7-point moving average and the
\* trimming to min_len, the test_actual and test_predicted series passed to
\* AdvancedMetricsEvaluator have the same length, and that length never
\* exceeds the size of the 20% test partition.  The series are passed only
\* when the function gets as far as building the evaluator.
C27_SplitLengths ==
    op = "generate_comprehensive_metrics_report" =>
        LET n == Len(args[1])
        IN  /\ ~TestSeries(args[1]).raised
            /\ Len(actual) = Len(predicted)
            /\ Len(actual) <= n - split_idx(n)

\* C28: the five columns of the metrics summary table always have the same
\* number of entries, 19 = 10 forecast + 7 FinOps + 2 operational, for every
\* input, with or without the columns idle_cost_inr and cpu_utilization; and
\* the Status of all ten forecast-accuracy rows is 'Pass' exactly when
\* MAPE <= 15 and 'Review' otherwise.
C28_SummaryTable ==
    op = "generate_comprehensive_metrics_report" =>
        /\ summary_csv.k = "table"
        /\ \A c \in DOMAIN summary_csv.v : Len(summary_csv.v[c]) = 19
        /\ \A i \in 1..10 :
               /\ summary_csv.v.category[i] = "Forecast Accuracy"
               /\ summary_csv.v.status[i] =
                      IF IsNum(calculate_mape(actual, predicted))
                         /\ calculate_mape(actual, predicted).v <= 15000
                      THEN "Pass" ELSE "Review"

====
